---------------------------- MODULE Spec2Model ----------------------------
(***************************************************************************)
(* tinygen (src/tinygen.py): one request of the /analyze/ endpoint.        *)
(* analyze_repo clones a repository into a temporary directory, walks the  *)
(* tree into one context text, drives three backend calls over one growing *)
(* history and returns the text between the fence markers of the last      *)
(* reply.                                                                  *)
(*                                                                         *)
(* Text is a sequence of one-character strings, so that split, endswith,   *)
(* os.path.join and the f-strings are computed character by character.     *)
(***************************************************************************)
EXTENDS Naturals, Sequences, FiniteSets

VARIABLES
  payload,    \* Payload: [repoUrl, prompt] of the request
  remote,     \* the files of the repository at repoUrl
  temp_dir,   \* tempfile.TemporaryDirectory(): "absent", "present" or "removed"
  tree,       \* the files under temp_dir
  todo,       \* os.walk: the directories still to visit, next first
  context,    \* the local `context`
  history,    \* the local `history`
  reply,      \* the local `reply`
  calls,      \* the backend's transcript: one record per send_message call
  exc,        \* the exception in flight or raised out of analyze_repo
  retval,     \* the value analyze_repo returns
  response,   \* what create_item answers
  pc          \* where the request is

vars == <<payload, remote, temp_dir, tree, todo, context, history, reply, calls, exc, retval,
          response, pc>>

----------------------------------------------------------------------------
(* The text literals of the source. *)

\* the grave accent, which a TLA+ string cannot hold
BT == "BACKTICK"

\* add_context: the text before {path} (src/tinygen.py:135-138)
ContextHead ==
  <<"\n", "_", "_", "_", "_", "_", " ", " ", "\n", "\n", "R", "E", "P", "O", " ", "F", "I", "L",
     "E", " ", "P", "A", "T", "H", ":", " ", "\n">>

\* add_context: the text between {path} and {code} (src/tinygen.py:139-142)
ContextMid ==
  <<"\n", "\n", "F", "I", "L", "E", " ", "C", "O", "N", "T", "E", "N", "T", ":", "\n", BT, BT,
     BT, "\n">>

\* add_context: the text after {code} (src/tinygen.py:143-148)
ContextTail ==
  <<"\n", BT, BT, BT, "\n", "\n", "_", "_", "_", "_", "\n", "\n">>

\* add_content: the text before {context} (src/tinygen.py:160-162)
ContentHead ==
  <<"\n", "C", "O", "D", "E", " ", "B", "A", "S", "E", ":", "\n", "\n">>

\* add_content: the text between {context} and {prompt} (src/tinygen.py:163-169)
ContentMid ==
  <<"\n", "\n", "\n", "_", "_", "_", "_", "_", "_", "_", "_", "_", "_", "_", "_", "_", "_", "_",
     "_", "_", "\n", "\n", "U", "S", "E", "R", " ", "P", "R", "O", "M", "P", "T", "\n", "A", "n",
     "a", "l", "y", "z", "e", " ", "c", "h", "a", "n", "g", "e", "s", " ", "t", "o", " ", "b",
     "e", " ", "m", "a", "d", "e", " ", "t", "o", " ", "t", "h", "i", "s", " ", "c", "o", "d",
     "e", " ", "b", "a", "s", "e", " ", "b", "a", "s", "e", "d", " ", "o", "n", " ", "t", "h",
     "i", "s", " ", "p", "r", "o", "m", "p", "t", ":", "\n">>

\* add_content: the text after {prompt} (src/tinygen.py:170-171)
ContentTail ==
  <<"\n">>

\* final_step_message (src/tinygen.py:92-101)
final_step_message ==
  <<"\n", "L", "o", "o", "k", " ", "t", "h", "r", "o", "u", "g", "h", " ", "a", "l", "l", " ",
     "t", "h", "e", " ", "c", "o", "d", "e", " ", "a", "n", "d", " ", "t", "h", "e", " ", "s",
     "u", "g", "g", "e", "s", "t", "e", "d", " ", "c", "h", "a", "n", "g", "e", "s", " ", "o",
     "n", "e", " ", "m", "o", "r", "e", " ", "t", "i", "m", "e", " ", "a", "n", "d", " ", "v",
     "e", "r", "i", "f", "y", " ", "t", "h", "a", "t", " ", "t", "h", "e", " ", "d", "i", "f",
     "f", " ", "f", "i", "l", "e", " ", "i", "s", " ", "p", "e", "r", "f", "e", "c", "t", " ",
     "w", "i", "t", "h", " ", "0", " ", "f", "l", "a", "w", "s", " ", "a", "n", "d", " ", "0",
     " ", "i", "s", "s", "u", "e", "s", ".", " ", "\n", "T", "h", "i", "s", " ", "m", "e", "a",
     "n", "s", " ", "n", "o", " ", "h", "e", "a", "d", "e", "r", "s", " ", "a", "r", "e", " ",
     "o", "f", "f", ",", " ", "e", "v", "e", "r", "y", "t", "h", "i", "n", "g", " ", "i", "s",
     " ", "f", "o", "r", "m", "a", "t", "t", "e", "d", " ", "c", "o", "r", "r", "e", "c", "t",
     "l", "y", " ", "b", "a", "s", "e", "d", " ", "o", "n", " ", "y", "o", "u", "r", " ", "e",
     "x", "p", "e", "r", "t", " ", "d", "i", "f", "f", " ", "w", "r", "i", "t", "i", "n", "g",
     " ", "e", "x", "p", "e", "r", "i", "e", "n", "c", "e", ",", " ", "a", "n", "d", " ", "a",
     "l", "l", " ", "c", "h", "a", "n", "g", "e", "s", " ", "w", "i", "l", "l", " ", "f", "u",
     "l", "f", "i", "l", "l", " ", "t", "h", "e", " ", "u", "s", "e", "r", " ", "p", "r", "o",
     "m", "p", "t", ".", "\n", "I", "f", " ", "t", "h", "e", "r", "e", " ", "a", "r", "e", " ",
     "n", "o", " ", "e", "r", "r", "o", "r", "s", ",", " ", "d", "o", " ", "n", "o", "t", " ",
     "c", "h", "a", "n", "g", "e", " ", "t", "h", "e", " ", "d", "i", "f", "f", " ", "f", "i",
     "l", "e", " ", "a", "t", " ", "a", "l", "l", ".", " ", "S", "i", "m", "p", "l", "y", " ",
     "r", "e", "w", "r", "i", "t", "e", " ", "i", "t", " ", "i", "n", " ", "t", "h", "e", " ",
     "c", "o", "r", "r", "e", "c", "t", " ", "f", "o", "r", "m", "a", "t", " ", "w", "i", "t",
     "h", " ", "n", "o", " ", "o", "t", "h", "e", "r", " ", "t", "e", "x", "t", ".", "\n", "I",
     "f", " ", "t", "h", "e", "r", "e", " ", "a", "r", "e", " ", "e", "r", "r", "o", "r", "s",
     ",", " ", "m", "a", "k", "e", " ", "s", "u", "r", "e", " ", "t", "h", "a", "t", " ", "y",
     "o", "u", " ", "c", "a", "n", " ", "m", "a", "k", "e", " ", "t", "h", "e", "s", "e", " ",
     "c", "h", "a", "n", "g", "e", "s", " ", "w", "h", "e", "n", " ", "y", "o", "u", " ", "r",
     "e", "w", "r", "i", "t", "e", " ", "t", "h", "e", " ", "d", "i", "f", "f", " ", "t", "o",
     " ", "m", "a", "k", "e", " ", "s", "u", "r", "e", " ", "t", "h", "a", "t", " ", "i", "t",
     " ", "i", "s", " ", "p", "e", "r", "f", "e", "c", "t", ".", "\n", "R", "e", "m", "e", "m",
     "b", "e", "r", " ", "t", "o", " ", "o", "n", "l", "y", " ", "h", "a", "v", "e", " ", "t",
     "h", "e", " ", "d", "i", "f", "f", " ", "s", "u", "r", "r", "o", "u", "n", "d", "e", "d",
     " ", "b", "y", " ", "t", "r", "i", "p", "l", "e", " ", "b", "a", "c", "k", " ", "t", "i",
     "c", "k", "s", " ", "i", "n", " ", "y", "o", "u", "r", " ", "f", "i", "n", "a", "l", " ",
     "o", "u", "t", "p", "u", "t", " ", "w", "i", "t", "h", " ", "n", "o", " ", "o", "t", "h",
     "e", "r", " ", "t", "e", "x", "t", ".", " ", "T", "h", "i", "s", " ", "m", "e", "a", "n",
     "s", " ", "y", "o", "u", " ", "s", "t", "a", "r", "t", " ", "w", "i", "t", "h", " ", "\"",
     BT, BT, BT, "b", "a", "s", "h", "\"", " ", "a", "n", "d", " ", "e", "n", "d", " ", "w", "i",
     "t", "h", " ", "\"", BT, BT, BT, "\"", " ", "a", "n", "d", " ", "n", "o", " ", "o", "t",
     "h", "e", "r", " ", "t", "e", "x", "t", " ", "a", "n", "d", " ", "n", "o", " ", "o", "t",
     "h", "e", "r", " ", "c", "o", "d", "e", " ", "a", "t", " ", "a", "l", "l", ".", "\n", "M",
     "a", "k", "e", " ", "s", "u", "r", "e", " ", "t", "h", "a", "t", " ", "t", "h", "e", " ",
     "d", "i", "f", "f", " ", "i", "s", " ", "t", "h", "e", " ", "b", "a", "r", "e", " ", "m",
     "i", "n", "i", "m", "u", "m", " ", "f", "o", "r", " ", "t", "h", "e", " ", "p", "r", "o",
     "m", "p", "t", ".", "\n", "\n", "U", "s", "e", "r", " ", "p", "r", "o", "m", "p", "t", " ",
     "a", "g", "a", "i", "n", ":", " ", "\n">>

\* the f-string of the second user turn, before {prompt} (src/tinygen.py:272)
GenerateDiffRequest ==
  <<"N", "o", "w", ",", " ", "g", "e", "n", "e", "r", "a", "t", "e", " ", "t", "h", "e", " ",
     "d", "i", "f", "f", " ", "f", "i", "l", "e", " ", "b", "a", "s", "e", "d", " ", "o", "n",
     " ", "w", "h", "a", "t", " ", "s", "h", "o", "u", "l", "d", " ", "b", "e", " ", "c", "h",
     "a", "n", "g", "e", "d", ".", " ", "O", "n", "c", "e", " ", "a", "g", "a", "i", "n", ",",
     " ", "t", "h", "e", " ", "u", "s", "e", "r", " ", "p", "r", "o", "m", "p", "t", " ", "i",
     "s", ":", " ">>

\* the opening marker of the fenced block (src/tinygen.py:283)
FenceOpen ==
  <<BT, BT, BT, "b", "a", "s", "h", "\n">>

\* the closing marker of the fenced block (src/tinygen.py:283)
FenceClose ==
  <<"\n", BT, BT, BT>>

\* detail prefix of the clone error (src/tinygen.py:219)
CloneFailedPrefix ==
  <<"F", "a", "i", "l", "e", "d", " ", "t", "o", " ", "c", "l", "o", "n", "e", " ", "r", "e",
     "p", "o", "s", "i", "t", "o", "r", "y", ":", " ">>

\* detail prefix of the generic error (src/tinygen.py:289)
UnexpectedPrefix ==
  <<"A", "n", " ", "u", "n", "e", "x", "p", "e", "c", "t", "e", "d", " ", "e", "r", "r", "o",
     "r", " ", "o", "c", "c", "u", "r", "r", "e", "d", ":", " ">>

\* str() of the IndexError that [1] raises on a one-element list (src/tinygen.py:283)
IndexErrorText ==
  <<"l", "i", "s", "t", " ", "i", "n", "d", "e", "x", " ", "o", "u", "t", " ", "o", "f", " ",
     "r", "a", "n", "g", "e">>

\* the suffix of the files left out (src/tinygen.py:252)
ZipSuffix ==
  <<".", "z", "i", "p">>


----------------------------------------------------------------------------
(* Bounds of the model. *)

\* the most files a repository holds
MaxFiles == 2

\* the most text chunks the backend streams in the third reply
MaxChunks == 4

----------------------------------------------------------------------------
(* str operations. *)

\* s[i:] starts with p (i counted from 1)
StartsAt(s, p, i) ==
  /\ i + Len(p) - 1 <= Len(s)
  /\ \A k \in 1..Len(p) : s[i + k - 1] = p[k]

\* str.endswith
EndsWith(s, suf) ==
  /\ Len(suf) <= Len(s)
  /\ StartsAt(s, suf, Len(s) - Len(suf) + 1)

\* str.find, counted from 1; 0 when sep does not occur
Find(s, sep) ==
  LET hits == {i \in 1..Len(s) : StartsAt(s, sep, i)}
  IN  IF hits = {} THEN 0 ELSE CHOOSE i \in hits : \A j \in hits : i <= j

\* str.split(sep) for a non-empty sep: the pieces between the occurrences of sep,
\* found left to right without overlap
RECURSIVE Split(_, _)
Split(s, sep) ==
  LET i == Find(s, sep)
  IN  IF i = 0 THEN <<s>>
      ELSE <<SubSeq(s, 1, i - 1)>> \o Split(SubSeq(s, i + Len(sep), Len(s)), sep)

\* the concatenation of a sequence of texts
RECURSIVE Concat(_)
Concat(ss) ==
  IF ss = <<>> THEN <<>> ELSE Head(ss) \o Concat(Tail(ss))

\* posixpath.join(a, b)
PathJoin(a, b) ==
  IF b # <<>> /\ b[1] = "/" THEN b
  ELSE IF a = <<>> \/ a[Len(a)] = "/" THEN a \o b
  ELSE a \o <<"/">> \o b

----------------------------------------------------------------------------
(* add_context and add_content. *)

add_context(code, path) ==
  ContextHead \o path \o ContextMid \o code \o ContextTail

add_content(ctx, prompt) ==
  ContentHead \o ctx \o ContentMid \o prompt \o ContentTail

----------------------------------------------------------------------------
(* The repository's files. *)

\* a directory name os.walk keeps, and one it prunes
SrcDir == <<"s">>
GitDir == <<".", "g">>

\* the directories of a repository, each the names from the root down
Dirs ==
  {<<>>, <<SrcDir>>, <<GitDir>>, <<SrcDir, SrcDir>>, <<SrcDir, GitDir>>, <<GitDir, SrcDir>>}

\* the kinds of file: two plain ones, a hidden one, an archive, one os.access
\* refuses and one whose read raises (UnicodeDecodeError)
Specimens ==
  { [name |-> <<"a">>, readable |-> TRUE, decodes |-> TRUE, content |-> <<"x">>],
    [name |-> <<"b">>, readable |-> TRUE, decodes |-> TRUE, content |-> <<"y", "\n">>],
    [name |-> <<".", "e">>, readable |-> TRUE, decodes |-> TRUE, content |-> <<"h">>],
    [name |-> <<"c">> \o ZipSuffix, readable |-> TRUE, decodes |-> TRUE, content |-> <<"z">>],
    [name |-> <<"u">>, readable |-> FALSE, decodes |-> TRUE, content |-> <<"n">>],
    [name |-> <<"r">>, readable |-> TRUE, decodes |-> FALSE, content |-> <<"m">>] }

FileAt(d, s) ==
  [dir |-> d, name |-> s.name, readable |-> s.readable, decodes |-> s.decodes,
   content |-> s.content]

Entries == {FileAt(d, s) : d \in Dirs, s \in Specimens}

\* the repositories of Spec: an empty one, and one of a top-level and a nested file
PlainEntries == {e \in Entries : e.name = <<"a">> /\ e.dir \in {<<>>, <<SrcDir>>}}
PlainRepos == {{}, PlainEntries}

\* the sets of at most n files of E
RECURSIVE TreesOver(_, _)
TreesOver(E, n) ==
  IF n = 0 THEN {{}}
  ELSE LET T == TreesOver(E, n - 1) IN T \cup {t \cup {e} : t \in T, e \in E}

\* the order in which a directory lists its names
NameOrder ==
  <<SrcDir, <<"a">>, GitDir, <<"u">>, <<"b">>, <<"c">> \o ZipSuffix, <<"r">>, <<".", "e">>>>

ListDir(names) == SelectSeq(NameOrder, LAMBDA n : n \in names)

IsPrefix(p, q) == Len(p) <= Len(q) /\ SubSeq(q, 1, Len(p)) = p

FilesIn(t, d) == {e.name : e \in {f \in t : f.dir = d}}

DirsIn(t, d) == {e.dir[Len(d) + 1] : e \in {f \in t : Len(f.dir) > Len(d) /\ IsPrefix(d, f.dir)}}

\* the path of the temporary directory
TempDirPath == <<"/", "t", "m", "p", "/", "t", "m", "p", "q">>

\* the root os.walk yields for directory d: join(top, name) from the top down
RECURSIVE RootOf(_)
RootOf(d) ==
  IF d = <<>> THEN TempDirPath
  ELSE PathJoin(RootOf(SubSeq(d, 1, Len(d) - 1)), d[Len(d)])

PathOf(e) == PathJoin(RootOf(e.dir), e.name)

\* f[0] == '.'
Hidden(name) == name[1] = "."

\* the file path annotated for `file` of directory `root`
GitFilePath(root, original_root, file) ==
  PathJoin(Split(root, original_root)[2], file)

\* the body of `for file in files`: the context after the files of one directory
RECURSIVE ReadFiles(_, _, _, _)
ReadFiles(t, root, files, ctx) ==
  IF files = <<>> THEN ctx
  ELSE LET file == Head(files)
           git_file_path == GitFilePath(root, TempDirPath, file)
           file_path == PathJoin(root, file)
           e == CHOOSE f \in t : PathOf(f) = file_path
           next == IF EndsWith(file, ZipSuffix) \/ ~e.readable THEN ctx
                   ELSE IF ~e.decodes THEN ctx
                   ELSE ctx \o add_context(e.content, git_file_path)
       IN  ReadFiles(t, root, Tail(files), next)

----------------------------------------------------------------------------
(* The conversation. *)

simple_code_analysis_system == "simple_code_analysis_system"
simple_diff_generation_system == "simple_diff_generation_system"

Message(role, content) == [role |-> role, content |-> content]

\* System with the instructions of the second and third call exchanged
SystemSwapped(k) ==
  IF k = 3 THEN simple_code_analysis_system ELSE simple_diff_generation_system

\* the system instruction of the k-th send_message call
System(k) ==
  IF k = 1 THEN simple_code_analysis_system ELSE simple_diff_generation_system

\* the history analyze_repo starts from
FirstHistory(ctx, prompt) == <<Message("user", add_content(ctx, prompt))>>

\* Extend starting the history afresh from the new turns
ExtendReplaces(h, turns) == turns

\* history.append(turn) for each of the turns
Extend(h, turns) == h \o turns

\* NextTurns appending the third reply as well
NextTurnsWithLastReply(k, r, prompt) ==
  IF k = 1 THEN <<Message("assistant", r), Message("user", GenerateDiffRequest \o prompt)>>
  ELSE IF k = 2 THEN <<Message("assistant", r), Message("user", final_step_message \o prompt)>>
  ELSE <<Message("assistant", r)>>

\* what analyze_repo appends to the history after the reply of call k
NextTurns(k, r, prompt) ==
  IF k = 1 THEN <<Message("assistant", r), Message("user", GenerateDiffRequest \o prompt)>>
  ELSE IF k = 2 THEN <<Message("assistant", r), Message("user", final_step_message \o prompt)>>
  ELSE <<>>

\* send_message: the reply is the chunks of the stream, concatenated
StreamedReply(chunks) == Concat(chunks)

\* reply.split("```bash\n")[1].split("\n```")[0]; [1] raises IndexError on one piece
ExtractDiff(r) ==
  LET parts == Split(r, FenceOpen)
  IN  IF Len(parts) < 2 THEN [ok |-> FALSE, value |-> <<>>]
      ELSE [ok |-> TRUE, value |-> Split(parts[2], FenceClose)[1]]

----------------------------------------------------------------------------
(* Exceptions and responses. *)

NoExc == [type |-> "none", status |-> 0, detail |-> <<>>, origin |-> "none", cause |-> <<>>]

\* an exception other than HTTPException, raised at `origin` with str(e) = msg
Raised(type, origin, msg) ==
  [type |-> type, status |-> 0, detail |-> msg, origin |-> origin, cause |-> msg]

\* clone_repository's except clause
CloneError(e) ==
  [type |-> "HTTPException", status |-> 400, detail |-> CloneFailedPrefix \o e,
   origin |-> "clone", cause |-> e]

\* Handle without the clause for Exception: every exception is raised on as it is
HandleReraises(e) == e

\* Handle without the clause for HTTPException: every exception becomes a 500
HandleWrapsAll(e) ==
  [type |-> "HTTPException", status |-> 500, detail |-> UnexpectedPrefix \o e.detail,
   origin |-> e.origin, cause |-> e.detail]

\* analyze_repo's except clauses
Handle(e) ==
  IF e.type = "HTTPException" THEN e
  ELSE [type |-> "HTTPException", status |-> 500, detail |-> UnexpectedPrefix \o e.detail,
        origin |-> e.origin, cause |-> e.detail]

NoResponse == [kind |-> "none", status |-> 0, body |-> <<>>, detail |-> <<>>]

\* the inputs of the model
Prompts == {<<"f", "i", "x">>, <<BT>>}
RepoUrls == {<<"u", "r", "l">>}
ErrMsgs == {<<"b", "o", "o", "m">>, <<"n", "o">>}

\* the text chunks the backend streams in the third reply
Fragments == {FenceOpen, FenceClose, <<"d">>, <<BT, BT, BT>>, <<"\n">>}

\* the sequences of at most n chunks of F
RECURSIVE Streams(_, _)
Streams(F, n) ==
  IF n = 0 THEN {<<>>}
  ELSE LET S == Streams(F, n - 1) IN S \cup {Append(s, f) : s \in S, f \in F}

----------------------------------------------------------------------------
(* The request. *)

SendPc == <<"send1", "send2", "send3">>
WaitPc == <<"wait1", "wait2", "wait3">>

InitLocals ==
  /\ temp_dir = "absent"
  /\ tree = {}
  /\ todo = <<>>
  /\ context = <<>>
  /\ history = <<>>
  /\ reply = <<>>
  /\ calls = <<>>
  /\ exc = NoExc
  /\ retval = <<>>
  /\ response = NoResponse
  /\ pc = "start"

Init ==
  /\ payload \in [repoUrl : RepoUrls, prompt : Prompts]
  /\ remote \in PlainRepos
  /\ InitLocals

\* with tempfile.TemporaryDirectory() as temp_dir
Enter ==
  /\ pc = "start"
  /\ temp_dir' = "present"
  /\ pc' = "clone"
  /\ UNCHANGED <<payload, remote, tree, todo, context, history, reply, calls, exc, retval,
                 response>>

\* clone_repository returns; context = "" and os.walk starts at temp_dir
CloneOk ==
  /\ pc = "clone"
  /\ tree' = remote
  /\ context' = <<>>
  /\ todo' = <<<<>>>>
  /\ pc' = "walk"
  /\ UNCHANGED <<payload, remote, temp_dir, history, reply, calls, exc, retval, response>>

\* Repo.clone_from raises e; clone_repository raises HTTPException(400)
CloneFail(e) ==
  /\ pc = "clone"
  /\ exc' = CloneError(e)
  /\ pc' = "exit_with"
  /\ UNCHANGED <<payload, remote, temp_dir, tree, todo, context, history, reply, calls,
                 retval, response>>

\* one iteration of `for root, dirs, files in os.walk(temp_dir)`
WalkDir ==
  /\ pc = "walk"
  /\ todo # <<>>
  /\ LET d == Head(todo)
         files == SelectSeq(ListDir(FilesIn(tree, d)), LAMBDA f : ~Hidden(f))
         dirs == SelectSeq(ListDir(DirsIn(tree, d)), LAMBDA n : ~Hidden(n))
     IN  /\ context' = ReadFiles(tree, RootOf(d), files, context)
         /\ todo' = [i \in 1..Len(dirs) |-> Append(d, dirs[i])] \o Tail(todo)
  /\ UNCHANGED <<payload, remote, temp_dir, tree, history, reply, calls, exc, retval,
                 response, pc>>

\* os.walk is exhausted; history = [{"role": "user", "content": add_content(...)}]
BuildHistory ==
  /\ pc = "walk"
  /\ todo = <<>>
  /\ history' = FirstHistory(context, payload.prompt)
  /\ pc' = SendPc[1]
  /\ UNCHANGED <<payload, remote, temp_dir, tree, todo, context, reply, calls, exc, retval,
                 response>>

\* send_message(system, history) opens the stream of call k
Send(k) ==
  /\ pc = SendPc[k]
  /\ calls' = Append(calls, [system |-> System(k), messages |-> history,
                             state |-> "pending", reply |-> <<>>])
  /\ pc' = WaitPc[k]
  /\ UNCHANGED <<payload, remote, temp_dir, tree, todo, context, history, reply, exc, retval,
                 response>>

\* call k returns the streamed text; analyze_repo appends the next turns
Receive(k, chunks) ==
  /\ pc = WaitPc[k]
  /\ LET r == StreamedReply(chunks)
     IN  /\ reply' = r
         /\ calls' = [calls EXCEPT ![k].state = "returned", ![k].reply = r]
         /\ history' = Extend(history, NextTurns(k, r, payload.prompt))
  /\ pc' = IF k < 3 THEN SendPc[k + 1] ELSE "extract"
  /\ UNCHANGED <<payload, remote, temp_dir, tree, todo, context, exc, retval, response>>

\* BackendRaise trying the call again instead of raising
BackendRaiseRetries(k, e) ==
  /\ pc = WaitPc[k]
  /\ calls' = [calls EXCEPT ![k].state = "raised"]
  /\ pc' = SendPc[k]
  /\ UNCHANGED <<payload, remote, temp_dir, tree, todo, context, history, reply, exc, retval,
                 response>>

\* call k raises e
BackendRaise(k, e) ==
  /\ pc = WaitPc[k]
  /\ calls' = [calls EXCEPT ![k].state = "raised"]
  /\ exc' = Raised("APIError", SendPc[k], e)
  /\ pc' = "exit_with"
  /\ UNCHANGED <<payload, remote, temp_dir, tree, todo, context, history, reply, retval,
                 response>>

\* Extract reading the reply of the second call, the last one in the history
ExtractFromHistory ==
  /\ pc = "extract"
  /\ LET x == ExtractDiff(history[4].content)
     IN  IF x.ok
         THEN retval' = <<x.value>> /\ exc' = exc
         ELSE retval' = retval /\ exc' = Raised("IndexError", "extract", IndexErrorText)
  /\ pc' = "exit_with"
  /\ UNCHANGED <<payload, remote, temp_dir, tree, todo, context, history, reply, calls,
                 response>>

\* return reply.split("```bash\n")[1].split("\n```")[0]
Extract ==
  /\ pc = "extract"
  /\ LET x == ExtractDiff(reply)
     IN  IF x.ok
         THEN retval' = <<x.value>> /\ exc' = exc
         ELSE retval' = retval /\ exc' = Raised("IndexError", "extract", IndexErrorText)
  /\ pc' = "exit_with"
  /\ UNCHANGED <<payload, remote, temp_dir, tree, todo, context, history, reply, calls,
                 response>>

\* ExitWith removing the directory on return only, as a cleanup written after the
\* last statement of the block would
ExitWithKeepsOnError ==
  /\ pc = "exit_with"
  /\ temp_dir' = IF exc = NoExc THEN "removed" ELSE temp_dir
  /\ tree' = IF exc = NoExc THEN {} ELSE tree
  /\ pc' = IF exc = NoExc THEN "return" ELSE "except"
  /\ UNCHANGED <<payload, remote, todo, context, history, reply, calls, exc, retval,
                 response>>

\* the with block is left, by return or by exception: the directory is removed
ExitWith ==
  /\ pc = "exit_with"
  /\ temp_dir' = "removed"
  /\ tree' = {}
  /\ pc' = IF exc = NoExc THEN "return" ELSE "except"
  /\ UNCHANGED <<payload, remote, todo, context, history, reply, calls, exc, retval,
                 response>>

\* except HTTPException: raise / except Exception as e: raise HTTPException(500)
Handler ==
  /\ pc = "except"
  /\ exc' = Handle(exc)
  /\ pc' = "raised"
  /\ UNCHANGED <<payload, remote, temp_dir, tree, todo, context, history, reply, calls,
                 retval, response>>

\* create_item: the diff analyze_repo returned, or the exception it raised
create_item ==
  /\ pc \in {"return", "raised"}
  /\ response' = IF pc = "return"
                 THEN [kind |-> "ok", status |-> 200, body |-> retval[1], detail |-> <<>>]
                 ELSE [kind |-> exc.type, status |-> exc.status, body |-> <<>>,
                       detail |-> exc.detail]
  /\ pc' = "done"
  /\ UNCHANGED <<payload, remote, temp_dir, tree, todo, context, history, reply, calls, exc,
                 retval>>

\* the streams of the first two replies, and of the third
PlanStreams == {<<<<"p">>>>, <<<<"q">>, <<"\n">>>>}
FinalStreams == Streams(Fragments, MaxChunks)

NextOver(P, F) ==
  \/ Enter
  \/ CloneOk
  \/ \E e \in ErrMsgs : CloneFail(e)
  \/ WalkDir
  \/ BuildHistory
  \/ \E k \in 1..3 : Send(k)
  \/ \E k \in 1..2 : \E c \in P : Receive(k, c)
  \/ \E c \in F : Receive(3, c)
  \/ \E k \in 1..3 : \E e \in ErrMsgs : BackendRaise(k, e)
  \/ Extract
  \/ ExitWith
  \/ Handler
  \/ create_item

Next == NextOver(PlanStreams, FinalStreams)

Spec == Init /\ [][Next]_vars

\* every repository of at most MaxFiles files, one prompt, one stream for each of the
\* first two replies, a third reply with a fenced block and one without
InitWalk ==
  /\ payload \in [repoUrl : RepoUrls, prompt : {<<"f", "i", "x">>}]
  /\ remote \in TreesOver(Entries, MaxFiles)
  /\ InitLocals

NextWalk == NextOver({<<<<"p">>>>}, {<<FenceOpen, <<"d">>, FenceClose>>, <<<<"d">>>>})

SpecWalk == InitWalk /\ [][NextWalk]_vars

----------------------------------------------------------------------------
(* What the properties below speak of. *)

\* sub occurs in s
Contains(s, sub) == Find(s, sub) > 0 \/ sub = <<>>

\* the k-th backend call has returned its reply
Returned(k) == Len(calls) >= k /\ calls[k].state = "returned"

\* the k-th backend call has raised
RaisedAt(k) == Len(calls) >= k /\ calls[k].state = "raised"

\* the third reply has been received and the extraction has run on it
Extracted == Returned(3) /\ pc # "extract"

\* the request has ended with the diff
Succeeded == pc = "done" /\ response.kind = "ok"

\* the occurrences of the opening marker in r
Openers(r) == {i \in 1..Len(r) : StartsAt(r, FenceOpen, i)}

\* the text of r after its first opening marker
AfterOpener(r) == SubSeq(r, Find(r, FenceOpen) + Len(FenceOpen), Len(r))

\* r holds one fenced block: one opening marker, and a closing marker after it
OneBlock(r) == Cardinality(Openers(r)) = 1 /\ Find(AfterOpener(r), FenceClose) > 0

\* the text between the opening marker of r and the next closing marker
Inner(r) == SubSeq(AfterOpener(r), 1, Find(AfterOpener(r), FenceClose) - 1)

\* the enumerations of the finite set S, each element once
RECURSIVE Orderings(_)
Orderings(S) ==
  IF S = {} THEN {<<>>}
  ELSE UNION {{<<e>> \o o : o \in Orderings(S \ {e})} : e \in S}

\* neither the file nor a directory above it is hidden
Visible(e) == ~Hidden(e.name) /\ \A i \in 1..Len(e.dir) : ~Hidden(e.dir[i])

\* the files the context is to hold
Eligible(t) ==
  {e \in t : Visible(e) /\ ~EndsWith(e.name, ZipSuffix) /\ e.readable /\ e.decodes}

\* the path of e relative to the repository root: its names joined by "/"
RelPath(e) == Concat([i \in 1..Len(e.dir) |-> e.dir[i] \o <<"/">>]) \o e.name

\* the context made of the files o, in this order, each under its relative path
Blocks(o) == Concat([i \in 1..Len(o) |-> add_context(o[i].content, RelPath(o[i]))])

----------------------------------------------------------------------------
(* The properties. *)

\* C1: the backend is called at most three times and three times in a request that
\* returns a diff, one call after the other has returned: the first with the analysis
\* instruction and 1 message, the second and third with the diff-generation
\* instruction and 3 and 5 messages; each call's history extends the history of every
\* earlier call and holds the reply of every earlier call as an assistant turn.
C1_ThreeSequentialCalls ==
  /\ Len(calls) <= 3
  /\ Succeeded => Len(calls) = 3 /\ \A k \in 1..3 : Returned(k)
  /\ \A k \in 1..Len(calls) :
       /\ calls[k].system = IF k = 1 THEN simple_code_analysis_system
                            ELSE simple_diff_generation_system
       /\ Len(calls[k].messages) = 2 * k - 1
       /\ \A j \in 1..(k - 1) :
            /\ calls[j].state = "returned"
            /\ IsPrefix(calls[j].messages, calls[k].messages)
            /\ calls[k].messages[2 * j] = Message("assistant", calls[j].reply)

\* C1 witness: a request that returned a diff after three calls
C1_Witness == Succeeded /\ Len(calls) = 3 /\ Len(calls[3].messages) = 5

\* C2: once the third call has returned, the history has 5 entries with the roles
\* user, assistant, user, assistant, user, and the third reply is not among them.
C2_FiveTurns ==
  Returned(3) =>
    /\ Len(history) = 5
    /\ [i \in 1..5 |-> history[i].role] = <<"user", "assistant", "user", "assistant", "user">>
    /\ history[2].content = calls[1].reply
    /\ history[4].content = calls[2].reply
    /\ history[5].content = final_step_message \o payload.prompt

\* C2 witness: the request is over and the third reply was not empty
C2_Witness == pc = "done" /\ Returned(3) /\ calls[3].reply # <<>> /\ Len(history) = 5

\* C3: the history is append-only: every step leaves the history it found as a prefix
\* of the history it leaves.
C3_AppendOnly == [][IsPrefix(history, history')]_vars

\* C3 witness: the third call is in flight with the five turns in the history
C3_Witness == pc = "wait3" /\ Len(history) = 5 /\ calls[3].messages = history

\* C4: once the with block of analyze_repo is left, on whichever path, the temporary
\* directory is removed with all it held; no request ends with it in place.
C4_TempDirRemoved ==
  pc \in {"return", "except", "raised", "done"} => temp_dir = "removed" /\ tree = {}

\* C4 witness: a request that cloned a file whose read raises, skipped it in the walk
\* and ended by a failed extraction
C4_Witness ==
  /\ pc = "done"
  /\ exc.origin = "extract"
  /\ temp_dir = "removed"
  /\ \E e \in remote : Visible(e) /\ e.readable /\ ~e.decodes

\* C5: for a third reply with one opening marker: with a closing marker after it the
\* result is the text between the two, and without one the extraction raises.
C5_ExtractionAsClaimed ==
  (Extracted /\ Cardinality(Openers(calls[3].reply)) = 1) =>
    IF Find(AfterOpener(calls[3].reply), FenceClose) > 0
    THEN retval = <<Inner(calls[3].reply)>> /\ exc.origin # "extract"
    ELSE retval = <<>> /\ exc.origin = "extract"

\* C6 as claimed: a third reply without the opening marker ends the request with the
\* IndexError of the parsing step, not with an error response made from it.
C6_ExtractionErrorUncaught ==
  (pc = "done" /\ Returned(3) /\ Openers(calls[3].reply) = {}) =>
    response.kind = "IndexError"

\* C6 amended: a third reply without the opening marker makes the parsing step raise
\* IndexError, which analyze_repo's handler for Exception turns into the
\* HTTPException with status 500 whose detail ends with the text of the IndexError.
C6_ExtractionErrorBecomes500 ==
  (pc = "done" /\ Returned(3) /\ Openers(calls[3].reply) = {}) =>
    /\ exc.origin = "extract"
    /\ response = [kind |-> "HTTPException", status |-> 500, body |-> <<>>,
                   detail |-> UnexpectedPrefix \o IndexErrorText]

\* C6 witness: a request ended on a third reply with a closing marker and no opening one
C6_Witness ==
  /\ pc = "done"
  /\ Returned(3)
  /\ Openers(calls[3].reply) = {}
  /\ Contains(calls[3].reply, FenceClose)
  /\ response.status = 500

\* C7: after the walk the context is made of the files that are not hidden, not under
\* a hidden directory, not .zip archives and readable, each once in some order, each
\* wrapped by add_context with its path relative to the repository root.
C7_ContextAsClaimed ==
  pc = SendPc[1] =>
    \E o \in Orderings(Eligible(tree)) : context = Blocks(o)

\* C8: a failed clone ends the request with the HTTPException of status 400 whose
\* detail holds the text of the exception the clone raised; analyze_repo's handlers
\* raise it on as it is.
C8_CloneFailureIs400 ==
  (pc \in {"raised", "done"} /\ exc.origin = "clone") =>
    /\ exc.type = "HTTPException"
    /\ exc.status = 400
    /\ exc.cause \in ErrMsgs
    /\ exc.detail = CloneFailedPrefix \o exc.cause
    /\ Contains(exc.detail, exc.cause)
    /\ pc = "done" =>
         response = [kind |-> "HTTPException", status |-> 400, body |-> <<>>,
                     detail |-> exc.detail]

\* C8 witness: a request ended by a failed clone
C8_Witness ==
  pc = "done" /\ exc.origin = "clone" /\ calls = <<>> /\ response.status = 400

\* C9: a backend call that raises is the last call of the request: it is not tried
\* again and no call follows, so at most three calls are made, each pass once; the
\* request then ends with status 500 and no diff. Every request ends with the diff
\* extracted from the third reply or with an error and no diff.
C9_BackendFailureAborts ==
  /\ Len(calls) <= 3
  /\ \A k \in 1..Len(calls) :
       /\ Len(calls[k].messages) = 2 * k - 1
       /\ calls[k].state = "raised" =>
            /\ k = Len(calls)
            /\ retval = <<>>
            /\ pc \in {"exit_with", "except", "raised", "done"}
            /\ pc = "done" =>
                 response = [kind |-> "HTTPException", status |-> 500, body |-> <<>>,
                             detail |-> UnexpectedPrefix \o exc.cause]
  /\ pc = "done" =>
       \/ /\ response.kind = "ok"
          /\ \A k \in 1..3 : Returned(k)
          /\ retval = <<response.body>>
          /\ ExtractDiff(calls[3].reply) = [ok |-> TRUE, value |-> response.body]
       \/ /\ response.kind = "HTTPException"
          /\ response.status \in {400, 500}
          /\ response.body = <<>>
          /\ retval = <<>>

\* C9 witness: a request ended by the second call raising
C9_Witness == pc = "done" /\ Len(calls) = 2 /\ RaisedAt(2) /\ response.status = 500

============================================================================
